---- MODULE Spec2Model ----
(***************************************************************************)
(* Model of the douban-wom scraper: the retrying fetcher http_get, the     *)
(* entry extractor parse_top_from_ul, the section locator                  *)
(* find_weekly_section, the snapshot indexer cdx_snapshots and the         *)
(* orchestrator run.  Each component has its own specification over the    *)
(* shared variables; the program is sequential, so a component's           *)
(* specification leaves the other components' variables untouched.         *)
(***************************************************************************)
EXTENDS Integers, Sequences, FiniteSets, TLC

\* Python's None.
None == "None"

(***************************************************************************)
(* Bounds of the model.                                                    *)
(***************************************************************************)
MaxRetries == 3

MaxLis == 2

MaxLimit == 2

MaxNodes == 4

MaxRows == 3

MaxSnapLimit == 2

MaxRecent == 3

MaxIndexRows == 3

VARIABLES
    \* http_get
    h_pc,          \* position in http_get
    max_retries,   \* its max_retries argument
    attempt,       \* the loop variable of `for attempt in range(...)`
    last_err,      \* the local last_err
    h_result,      \* the returned response or the raised exception
    h_events,      \* history: every requests.get and every time.sleep, in order
    \* parse_top_from_ul
    p_pc,          \* "idle", "returned" or "raised"
    ul,            \* its ul argument: Nothing, or Some(the direct child <li>s)
    limit,         \* its limit argument
    entries,       \* the list it returned
    \* find_weekly_section
    l_pc,          \* "idle" or "returned"
    doc,           \* the parsed document (soup)
    section,       \* the container returned: Nothing, or Some(node)
    \* cdx_snapshots
    c_pc,          \* "idle", "returned" or "raised"
    response,      \* the index's HTTP response
    c_limit,       \* its limit argument
    snaps,         \* the list it returned
    \* run
    r_pc,          \* position in run
    recent,        \* its recent argument
    out,           \* the dict it builds: current, recent_archives, notes
    r_snaps,       \* the local snaps
    r_i,           \* the position of `for snap in snaps` (1-based)
    r_index,       \* history: the outcome of each cdx_snapshots call
    r_fetches      \* history: the argument and outcome of each fetch_archive call

httpVars == <<h_pc, max_retries, attempt, last_err, h_result, h_events>>

parseVars == <<p_pc, ul, limit, entries>>

locVars == <<l_pc, doc, section>>

cdxVars == <<c_pc, response, c_limit, snaps>>

runVars == <<r_pc, recent, out, r_snaps, r_i, r_index, r_fetches>>

vars == <<httpVars, parseVars, locVars, cdxVars, runVars>>

\* An optional value (None or a value) is a sequence of length 0 or 1.
Nothing == <<>>

Some(x) == <<x>>

(***************************************************************************)
(* http_get (douban_wom.py)                                                *)
(***************************************************************************)
\* The outcomes of one requests.get: a 200 response, a response with another
\* status, or an exception raised by requests.
Outcomes == {"200", "non200", "exc"}

\* The response object returned by the attempt with the given index.
Resp(i) == [kind |-> "response", attempt |-> i]

\* The exception object raised by the attempt with the given index.
Exc(i) == [kind |-> "exception", attempt |-> i]

\* RuntimeError(f"Failed to GET {url}")
RuntimeError == [kind |-> "RuntimeError", attempt |-> -1]

\* last_err = None, and "nothing returned or raised yet".
NoObj == [kind |-> "None", attempt |-> -1]

RangeLenOffByOne(m) == m + 2

\* len(range(max_retries + 1)): the number of loop iterations.
RangeLen(m) == IF m + 1 > 0 THEN m + 1 ELSE 0

\* time.sleep(1.2 * (attempt + 1)), in tenths of a second.
Backoff(a) == 12 * (a + 1)

FinalErrorGeneric(err) == RuntimeError

\* After the loop: `if last_err: raise last_err`, else the RuntimeError.
FinalError(err) == IF err # NoObj THEN err ELSE RuntimeError

LoopPc(a, m) == IF a < RangeLen(m) THEN "get" ELSE "after_loop"

HttpInit ==
    /\ h_pc = "idle"
    /\ max_retries = 0
    /\ attempt = 0
    /\ last_err = NoObj
    /\ h_result = NoObj
    /\ h_events = <<>>

\* The call: last_err = None, and the loop starts.
HttpCall ==
    /\ h_pc = "idle"
    /\ \E m \in 0..MaxRetries :
        /\ max_retries' = m
        /\ h_pc' = LoopPc(0, m)
    /\ attempt' = 0
    /\ last_err' = NoObj
    /\ UNCHANGED <<h_result, h_events, parseVars, locVars, cdxVars, runVars>>

\* One requests.get inside the try block.
HttpRequest ==
    /\ h_pc = "get"
    /\ \E o \in Outcomes :
        /\ h_events' = Append(h_events, [ev |-> "get", outcome |-> o, dur |-> 0])
        /\ h_pc' = IF o = "200" THEN "returned" ELSE "sleep"
        /\ h_result' = IF o = "200" THEN Resp(attempt) ELSE h_result
        /\ last_err' = IF o = "exc" THEN Exc(attempt) ELSE last_err
    /\ UNCHANGED <<max_retries, attempt, parseVars, locVars, cdxVars, runVars>>

\* The time.sleep of either branch, then the next loop iteration.
HttpSleep ==
    /\ h_pc = "sleep"
    /\ h_events' = Append(h_events, [ev |-> "sleep", outcome |-> None, dur |-> Backoff(attempt)])
    /\ attempt' = attempt + 1
    /\ h_pc' = LoopPc(attempt + 1, max_retries)
    /\ UNCHANGED <<max_retries, last_err, h_result, parseVars, locVars, cdxVars, runVars>>

\* The loop is over without a return.
HttpExhausted ==
    /\ h_pc = "after_loop"
    /\ h_result' = FinalError(last_err)
    /\ h_pc' = "raised"
    /\ UNCHANGED <<max_retries, attempt, last_err, h_events, parseVars, locVars, cdxVars, runVars>>

HttpNext == HttpCall \/ HttpRequest \/ HttpSleep \/ HttpExhausted

(***************************************************************************)
(* _norm_text and parse_top_from_ul (html_parsers.py)                      *)
(*                                                                         *)
(* A text is a sequence of characters.  The alphabet holds two ASCII       *)
(* digits, a letter, a title character, the superscript two (for which     *)
(* str.isdigit() is true and int() raises ValueError), a space and a       *)
(* non-breaking space.                                                     *)
(***************************************************************************)
Whitespace == {" ", "nbsp"}

\* Characters c with c.isdigit().
DigitChars == {"3", "7", "sup2"}

\* Characters int() accepts.
DecimalChars == {"3", "7"}

DigitVal(c) == IF c = "3" THEN 3 ELSE 7

RECURSIVE LStrip(_)
LStrip(s) == IF s # <<>> /\ Head(s) \in Whitespace THEN LStrip(Tail(s)) ELSE s

RECURSIVE RStrip(_)
RStrip(s) ==
    IF s # <<>> /\ s[Len(s)] \in Whitespace THEN RStrip(SubSeq(s, 1, Len(s) - 1)) ELSE s

\* (s or "").strip().replace("\xa0", " ")
NormText(s) ==
    LET t == RStrip(LStrip(s))
    IN  [i \in 1..Len(t) |-> IF t[i] = "nbsp" THEN " " ELSE t[i]]

\* str.isdigit(): non-empty and every character a digit.
IsDigit(s) == s # <<>> /\ \A i \in 1..Len(s) : s[i] \in DigitChars

\* Whether int(s) raises ValueError, for a text with s.isdigit().
IntRaises(s) == \E i \in 1..Len(s) : s[i] \notin DecimalChars

RECURSIVE ToInt(_)
ToInt(s) == IF s = <<>> THEN 0 ELSE 10 * ToInt(SubSeq(s, 1, Len(s) - 1)) + DigitVal(s[Len(s)])

\* An <li>: no_div is the text of its first div.no (Nothing: no such div);
\* a is the first <a> inside its first div.name (Nothing: no div.name or no
\* <a> in it), with its text and its href attribute (Nothing: no href).
NoDivs == {Nothing, Some(<<"3">>), Some(<<"nbsp", "7">>), Some(<<"x">>), Some(<<"sup2">>)}

Anchors ==
    { Nothing,
      Some([text |-> <<"T">>, href |-> Some("/s")]),
      Some([text |-> <<"nbsp">>, href |-> Some("/s")]),
      Some([text |-> <<"T">>, href |-> Nothing]),
      Some([text |-> <<"T">>, href |-> Some("")]) }

Lis == [no_div : NoDivs, a : Anchors]

SeqsUpTo(S, n) == UNION {[1..k -> S] : k \in 0..n}

\* The direct child <li>s of a container, in document order.
UlChildren == SeqsUpTo(Lis, MaxLis)

\* Lines 100-104: whether computing `no` raises (int() of a text that passes
\* isdigit() but is no decimal literal).
LiRaises(li) ==
    /\ li.no_div # Nothing
    /\ IsDigit(NormText(li.no_div[1]))
    /\ IntRaises(NormText(li.no_div[1]))

\* Lines 100-104: no.
LiNo(li) ==
    IF li.no_div # Nothing /\ IsDigit(NormText(li.no_div[1]))
    THEN Some(ToInt(NormText(li.no_div[1])))
    ELSE Nothing

\* Lines 106-111: name.
LiName(li) == IF li.a # Nothing THEN Some(NormText(li.a[1].text)) ELSE Nothing

\* Lines 106-111: href.
LiHref(li) == IF li.a # Nothing THEN li.a[1].href ELSE Nothing

\* Line 112: `no is not None and name and href`.
LiAccepted(li) ==
    /\ LiNo(li) # Nothing
    /\ LiName(li) # Nothing /\ LiName(li)[1] # <<>>
    /\ LiHref(li) # Nothing /\ LiHref(li)[1] # ""

LiEntry(li) == [rank |-> LiNo(li), title |-> LiName(li)[1], url |-> LiHref(li)[1]]

\* The loop of lines 95-115 from the i-th <li> on: the results collected, or
\* the ValueError that leaves the function.
RECURSIVE ParseLoop(_, _, _, _)
ParseLoop(lis, i, results, lim) ==
    IF i > Len(lis) THEN [raised |-> FALSE, results |-> results]
    ELSE IF LiRaises(lis[i]) THEN [raised |-> TRUE, results |-> <<>>]
    ELSE LET r == IF LiAccepted(lis[i]) THEN Append(results, LiEntry(lis[i])) ELSE results
         IN  IF Len(r) >= lim THEN [raised |-> FALSE, results |-> r]
             ELSE ParseLoop(lis, i + 1, r, lim)

RepairAlways(results) == [i \in 1..Len(results) |-> [results[i] EXCEPT !.rank = Some(i)]]

\* Lines 117-120: the repair pass.
Repair(results) ==
    IF results # <<>> /\ \E i \in 1..Len(results) : results[i].rank = Nothing
    THEN [i \in 1..Len(results) |-> [results[i] EXCEPT !.rank = Some(i)]]
    ELSE results

\* parse_top_from_ul(ul, limit).
ParseTopFromUl(u, lim) ==
    IF u = Nothing THEN [raised |-> FALSE, results |-> <<>>]
    ELSE LET r == ParseLoop(u[1], 1, <<>>, lim)
         IN  IF r.raised THEN r ELSE [raised |-> FALSE, results |-> Repair(r.results)]

ParseInit ==
    /\ p_pc = "idle"
    /\ ul = Nothing
    /\ limit = 0
    /\ entries = <<>>

\* One call of parse_top_from_ul, as parse_weekly_top makes it on the located
\* container (or None) with the caller's limit.
ParseCall ==
    /\ p_pc = "idle"
    /\ \E lim \in 0..MaxLimit :
        \E u \in {Nothing} \cup {Some(lis) : lis \in UlChildren} :
            LET r == ParseTopFromUl(u, lim)
            IN  /\ ul' = u
                /\ limit' = lim
                /\ entries' = r.results
                /\ p_pc' = IF r.raised THEN "raised" ELSE "returned"
    /\ UNCHANGED <<httpVars, locVars, cdxVars, runVars>>

ParseNext == ParseCall

(***************************************************************************)
(* find_weekly_section (html_parsers.py)                                   *)
(*                                                                         *)
(* A document is its nodes 1..n in document order (pre-order), each with   *)
(* its parent (0: the BeautifulSoup object itself) and its kind:           *)
(*   "h2kw"  an <h2> whose text contains TARGET_H2_KEYWORD                 *)
(*   "h2"    any other <h2>                                                *)
(*   "ulc"   a <ul class="content">                                        *)
(*   "ulid"  a <ul id="listCont2">                                         *)
(*   "div"   any other element                                             *)
(*   "txt"   a NavigableString (a leaf)                                    *)
(***************************************************************************)
NodeKinds == {"h2kw", "h2", "ulc", "ulid", "div", "txt"}

RECURSIVE IsAncestorOrSelf(_, _, _)
IsAncestorOrSelf(par, a, i) ==
    IF i = a THEN TRUE
    ELSE IF i = 0 THEN FALSE
    ELSE IsAncestorOrSelf(par, a, par[i])

\* Pre-order numbering: the parent of node i is node i - 1 or one of its
\* ancestors.
ParentFns(n) ==
    {par \in [1..n -> 0..(n - 1)] :
        \A i \in 1..n :
            /\ par[i] < i
            /\ i > 1 => IsAncestorOrSelf(par, par[i], i - 1)}

\* A NavigableString has no children.
KindFns(par, n) ==
    {k \in [1..n -> NodeKinds] : \A i \in 1..n : par[i] # 0 => k[par[i]] # "txt"}

NodesOf(d) == 1..Len(d.kind)

MinOf(S) == CHOOSE x \in S : \A y \in S : x <= y

\* The first element of S in document order, or None.
First(S) == IF S = {} THEN Nothing ELSE Some(MinOf(S))

\* The proper descendants of node p (of the soup, for p = 0).
Descendants(d, p) == {j \in NodesOf(d) : j # p /\ IsAncestorOrSelf(d.parent, p, j)}

\* Lines 29-32: of the nodes soup.find_all("h2") gives, those whose text
\* contains the keyword.
H2Candidates(d) ==
    {i \in {j \in NodesOf(d) : d.kind[j] \in {"h2", "h2kw"}} : d.kind[i] = "h2kw"}

FindUlContentAnywhere(d, p) == First({j \in NodesOf(d) : d.kind[j] = "ulc"})

\* p.find("ul", class_="content"): the first descendant of p, in document
\* order, that is a <ul> with class content.
FindUlContent(d, p) == First({j \in Descendants(d, p) : d.kind[j] = "ulc"})

\* soup.find("ul", id="listCont2")
FindUlById(d) == First({j \in Descendants(d, 0) : d.kind[j] = "ulid"})

\* sib.next_sibling
NextSibling(d, i) == First({j \in NodesOf(d) : j > i /\ d.parent[j] = d.parent[i]})

\* Lines 48-54: at most `steps` more siblings after sib.
RECURSIVE SiblingScan(_, _, _)
SiblingScan(d, sib, steps) ==
    IF steps = 0 THEN Nothing
    ELSE LET nxt == NextSibling(d, sib)
         IN  IF nxt = Nothing THEN Nothing
             ELSE IF d.kind[nxt[1]] = "ulc" THEN nxt
             ELSE SiblingScan(d, nxt[1], steps - 1)

\* range(5) of line 49.
SiblingSteps == 5

\* find_weekly_section(soup)
FindWeeklySection(d) ==
    IF H2Candidates(d) = {} THEN Nothing
    ELSE LET h2 == MinOf(H2Candidates(d))
             inParent == FindUlContent(d, d.parent[h2])
             sibling == SiblingScan(d, h2, SiblingSteps)
             byId == FindUlById(d)
         IN  IF inParent # Nothing THEN inParent
             ELSE IF sibling # Nothing THEN sibling
             ELSE IF byId # Nothing THEN byId
             ELSE FindUlContent(d, 0)

LocInit ==
    /\ l_pc = "idle"
    /\ doc = [parent |-> <<>>, kind |-> <<>>]
    /\ section = Nothing

\* One call of find_weekly_section on a parsed document.
LocateCall ==
    /\ l_pc = "idle"
    /\ \E n \in 0..MaxNodes :
        \E par \in ParentFns(n) :
            \E kd \in KindFns(par, n) :
                LET d == [parent |-> par, kind |-> kd]
                IN  /\ doc' = d
                    /\ section' = FindWeeklySection(d)
    /\ l_pc' = "returned"
    /\ UNCHANGED <<httpVars, parseVars, cdxVars, runVars>>

LocNext == LocateCall

(***************************************************************************)
(* cdx_snapshots (douban_wom.py)                                           *)
(*                                                                         *)
(* A string of the index is a sequence of digits, compared as Python       *)
(* compares strings; "" is the empty sequence.  A response is its status   *)
(* (ok: raise_for_status() passes), whether json.loads accepts its body,   *)
(* and the body as a table: the header row and the data rows, each row a   *)
(* sequence of cells.  In the text format a row without cells is a blank   *)
(* line.                                                                   *)
(***************************************************************************)
EmptyStr == <<>>

\* a < b for Python strings.
RECURSIVE StrLess(_, _)
StrLess(a, b) ==
    IF b = <<>> THEN FALSE
    ELSE IF a = <<>> THEN TRUE
    ELSE IF Head(a) # Head(b) THEN Head(a) < Head(b)
    ELSE StrLess(Tail(a), Tail(b))

Cells == {<<1>>, <<2>>, <<1, 0>>}

HeaderRows == {<<"timestamp">>, <<"original", "timestamp">>, <<"original">>}

DataRows == {<<>>} \cup {<<c>> : c \in Cells} \cup {<<<<9>>, c>> : c \in Cells}

\* The last position of key h among the first n headers (0: none).
LastIndex(headers, h, n) ==
    LET S == {i \in 1..n : headers[i] = h}
    IN  IF S = {} THEN 0 ELSE CHOOSE i \in S : \A j \in S : j <= i

\* dict(zip(headers, row))
ZipDict(headers, row) ==
    LET n == IF Len(headers) < Len(row) THEN Len(headers) ELSE Len(row)
    IN  [h \in {headers[i] : i \in 1..n} |-> row[LastIndex(headers, h, n)]]

\* {h: (parts[i] if i < len(parts) else "") for i, h in enumerate(headers)}
TextDict(headers, parts) ==
    [h \in {headers[i] : i \in 1..Len(headers)} |->
        LET i == LastIndex(headers, h, Len(headers))
        IN  IF i <= Len(parts) THEN parts[i] ELSE EmptyStr]

\* r.get("timestamp", "")
SortKey(r) == IF "timestamp" \in DOMAIN r THEN r["timestamp"] ELSE EmptyStr

\* rows[:limit]
Take(rows, n) == SubSeq(rows, 1, IF n < Len(rows) THEN n ELSE Len(rows))

\* Insert r behind every record whose key is not smaller: the sort is stable.
RECURSIVE InsertDesc(_, _)
InsertDesc(sorted, r) ==
    IF sorted = <<>> THEN <<r>>
    ELSE IF StrLess(SortKey(Head(sorted)), SortKey(r)) THEN <<r>> \o sorted
    ELSE <<Head(sorted)>> \o InsertDesc(Tail(sorted), r)

\* rows.sort(key=..., reverse=True)
RECURSIVE SortDesc(_)
SortDesc(rows) ==
    IF rows = <<>> THEN <<>>
    ELSE InsertDesc(SortDesc(SubSeq(rows, 1, Len(rows) - 1)), rows[Len(rows)])

\* Lines 83-94: the text fallback.
ParseText(table, lim) ==
    LET lines == SelectSeq(table, LAMBDA ln : ln # <<>>)
    IN  IF lines = <<>> THEN <<>>
        ELSE Take([i \in 1..(Len(lines) - 1) |-> TextDict(lines[1], lines[i + 1])], lim)

\* Lines 96-103: the JSON format.
ParseJson(table, lim) ==
    IF Len(table) < 2 THEN <<>>
    ELSE Take(SortDesc([i \in 1..(Len(table) - 1) |-> ZipDict(table[1], table[i + 1])]), lim)

\* cdx_snapshots(url, limit): the records, or the exception of
\* raise_for_status().
CdxSnapshots(resp, lim) ==
    IF ~resp.ok THEN [raised |-> TRUE, rows |-> <<>>]
    ELSE IF resp.json THEN [raised |-> FALSE, rows |-> ParseJson(resp.table, lim)]
    ELSE [raised |-> FALSE, rows |-> ParseText(resp.table, lim)]

\* The bodies with the given header rows and at most n data rows of the
\* given kinds, and the body without any row.
Tables(hdrs, kinds, n) ==
    {<<>>} \cup UNION {{<<h>> \o rows : rows \in SeqsUpTo(kinds, n)} : h \in hdrs}

CdxInit ==
    /\ c_pc = "idle"
    /\ response = [ok |-> TRUE, json |-> TRUE, table |-> <<>>]
    /\ c_limit = 0
    /\ snaps = <<>>

\* One call of cdx_snapshots.
CdxCall ==
    /\ c_pc = "idle"
    /\ \E lim \in 0..MaxSnapLimit, ok \in BOOLEAN, js \in BOOLEAN :
        \E t \in Tables(HeaderRows, DataRows, MaxRows) :
            LET resp == [ok |-> ok, json |-> js, table |-> t]
                r == CdxSnapshots(resp, lim)
            IN  /\ response' = resp
                /\ c_limit' = lim
                /\ snaps' = r.rows
                /\ c_pc' = IF r.raised THEN "raised" ELSE "returned"
    /\ UNCHANGED <<httpVars, parseVars, locVars, runVars>>

CdxNext == CdxCall

(***************************************************************************)
(* run (douban_wom.py)                                                     *)
(*                                                                         *)
(* fetch_current and fetch_archive either return a result or raise (the    *)
(* exception of http_get or of the parse); the index answers with any      *)
(* response, which cdx_snapshots turns into the snapshot records.          *)
(***************************************************************************)
\* out["current"] = None
NoCurrent == [kind |-> "None", ts |-> EmptyStr]

\* The dict fetch_current returns.
CurrentResult == [kind |-> "result", ts |-> EmptyStr]

\* {"error": f"failed_current: {e}"}
CurrentError == [kind |-> "error", ts |-> EmptyStr]

\* The dict fetch_archive(ts) returns.
ArchiveResult(ts) == [kind |-> "result", ts |-> ts]

\* {"error": f"failed_archive_{ts}: {e}", "timestamp": ts}
ArchiveError(ts) == [kind |-> "error", ts |-> ts]

HasArchivesFromZero(rc) == rc >= 0

\* Line 138: `if recent and recent > 0`.
HasArchives(rc) == rc # 0 /\ rc > 0

\* snap.get("timestamp")
SnapTs(snap) == IF "timestamp" \in DOMAIN snap THEN Some(snap["timestamp"]) ELSE Nothing

\* Line 146: `if not ts`.
NotTs(ts) == ts = Nothing \/ ts[1] = EmptyStr

ArchivesAppendOnSuccess(archives, archive) ==
    IF archive.kind = "error" THEN archives ELSE Append(archives, archive)

\* Line 152: out["recent_archives"].append(archive)
ArchivesAppend(archives, archive) == Append(archives, archive)

IndexHeaderRows == {<<"timestamp">>, <<"original", "timestamp">>}

IndexDataRows == {<<<<1>>>>, <<<<2>>>>, <<<<9>>, <<1>>>>}

RunInit ==
    /\ r_pc = "idle"
    /\ recent = 0
    /\ out = [current |-> NoCurrent, recent_archives |-> <<>>, notes |-> <<>>]
    /\ r_snaps = <<>>
    /\ r_i = 1
    /\ r_index = <<>>
    /\ r_fetches = <<>>

\* The call: lines 125-130.
RunCall ==
    /\ r_pc = "idle"
    /\ \E rc \in (-1)..MaxRecent : recent' = rc
    /\ out' = [current |-> NoCurrent, recent_archives |-> <<>>, notes |-> <<>>]
    /\ r_pc' = "current"
    /\ UNCHANGED <<r_snaps, r_i, r_index, r_fetches>>
    /\ UNCHANGED <<httpVars, parseVars, locVars, cdxVars>>

\* Lines 132-138: the current fetch in its try block, then the test of recent.
RunCurrent ==
    /\ r_pc = "current"
    /\ \E ok \in BOOLEAN :
        out' = [out EXCEPT !.current = IF ok THEN CurrentResult ELSE CurrentError]
    /\ r_pc' = IF HasArchives(recent) THEN "index" ELSE "done"
    /\ UNCHANGED <<recent, r_snaps, r_i, r_index, r_fetches>>
    /\ UNCHANGED <<httpVars, parseVars, locVars, cdxVars>>

\* Lines 139-143: the index query in its try block.
RunIndex ==
    /\ r_pc = "index"
    /\ \E ok \in BOOLEAN, js \in BOOLEAN :
        \E t \in Tables(IndexHeaderRows, IndexDataRows, MaxIndexRows) :
            LET r == CdxSnapshots([ok |-> ok, json |-> js, table |-> t], recent)
            IN  /\ r_snaps' = IF r.raised THEN <<>> ELSE r.rows
                /\ out' = IF r.raised
                           THEN [out EXCEPT !.notes = Append(@, "archive_list_error")]
                           ELSE out
                /\ r_index' = Append(r_index, IF r.raised THEN "raised" ELSE "returned")
    /\ r_i' = 1
    /\ r_pc' = "loop"
    /\ UNCHANGED <<recent, r_fetches>>
    /\ UNCHANGED <<httpVars, parseVars, locVars, cdxVars>>

\* Lines 144-152: one iteration of the loop over snaps.
RunSnap ==
    /\ r_pc = "loop"
    /\ r_i <= Len(r_snaps)
    /\ LET ts == SnapTs(r_snaps[r_i])
       IN  IF NotTs(ts)
           THEN UNCHANGED <<out, r_fetches>>
           ELSE \E ok \in BOOLEAN :
                   /\ out' = [out EXCEPT !.recent_archives =
                                 ArchivesAppend(@, IF ok THEN ArchiveResult(ts[1])
                                                        ELSE ArchiveError(ts[1]))]
                   /\ r_fetches' = Append(r_fetches, [ts |-> ts[1], ok |-> ok])
    /\ r_i' = r_i + 1
    /\ UNCHANGED <<r_pc, recent, r_snaps, r_index>>
    /\ UNCHANGED <<httpVars, parseVars, locVars, cdxVars>>

\* Line 153: the loop is over; return out.
RunReturn ==
    /\ r_pc = "loop"
    /\ r_i > Len(r_snaps)
    /\ r_pc' = "done"
    /\ UNCHANGED <<recent, out, r_snaps, r_i, r_index, r_fetches>>
    /\ UNCHANGED <<httpVars, parseVars, locVars, cdxVars>>

RunNext == RunCall \/ RunCurrent \/ RunIndex \/ RunSnap \/ RunReturn

Init == HttpInit /\ ParseInit /\ LocInit /\ CdxInit /\ RunInit

SpecRun == Init /\ [][RunNext]_vars

SpecCdx == Init /\ [][CdxNext]_vars

SpecLocate == Init /\ [][LocNext]_vars

SpecHttp == Init /\ [][HttpNext]_vars

SpecParse == Init /\ [][ParseNext]_vars

\* History projections.
Gets == SelectSeq(h_events, LAMBDA e : e.ev = "get")

Sleeps == SelectSeq(h_events, LAMBDA e : e.ev = "sleep")

\* C1: http_get makes at most max_retries + 1 attempts, returns the response
\* of the first attempt with status 200 and makes no attempt after it, and
\* fails only after exactly max_retries + 1 attempts that all failed.
C1_AttemptsBounded ==
    /\ Len(Gets) <= max_retries + 1
    /\ \A i \in 1..Len(h_events) :
        (h_events[i].ev = "get" /\ h_events[i].outcome = "200") => i = Len(h_events)
    /\ h_pc = "returned" =>
        /\ Len(Gets) >= 1
        /\ Gets[Len(Gets)].outcome = "200"
        /\ \A i \in 1..(Len(Gets) - 1) : Gets[i].outcome # "200"
        /\ h_result = Resp(Len(Gets) - 1)
    /\ h_pc = "raised" =>
        /\ Len(Gets) = max_retries + 1
        /\ \A i \in 1..Len(Gets) : Gets[i].outcome # "200"

\* A 200 on the second attempt with retries still left, and nothing after it.
C1_Witness ==
    /\ h_pc = "returned"
    /\ Len(Gets) = 2
    /\ max_retries >= 2

\* C2: when every attempt failed, a transport exception on the last attempt
\* is the exception raised; all-non-200 with no exception raises the generic
\* RuntimeError.
C2_FinalError ==
    h_pc = "raised" =>
        /\ Gets[Len(Gets)].outcome = "exc" => h_result = Exc(Len(Gets) - 1)
        /\ (\A i \in 1..Len(Gets) : Gets[i].outcome = "non200") => h_result = RuntimeError

\* Exhausted with an exception on the last of several attempts.
C2_Witness ==
    /\ h_pc = "raised"
    /\ Len(Gets) >= 2
    /\ Gets[1].outcome = "non200"
    /\ Gets[Len(Gets)].outcome = "exc"

\* C10: the i-th backoff lasts 1.2 * (i + 1) s and every backoff is followed
\* by another attempt: a call that fails on all attempts sleeps exactly
\* max_retries times and reports the failure without a sleep after the final
\* attempt.
C10_SleepOnlyBetweenAttempts ==
    /\ \A i \in 1..Len(Sleeps) : Sleeps[i].dur = 12 * i
    /\ h_pc = "raised" =>
        /\ Len(Sleeps) = max_retries
        /\ h_events[Len(h_events)].ev = "get"

(***************************************************************************)
(* Claims about parse_top_from_ul                                          *)
(***************************************************************************)
\* The claims' notion of a purely numeric rank text.
PurelyNumeric(s) == s # <<>> /\ \A i \in 1..Len(s) : s[i] \in DecimalChars

\* The claims' acceptable item: a purely numeric rank text, a non-empty title
\* and a non-empty url.
Acceptable(li) ==
    /\ li.no_div # Nothing /\ PurelyNumeric(NormText(li.no_div[1]))
    /\ li.a # Nothing /\ NormText(li.a[1].text) # <<>>
    /\ li.a[1].href # Nothing /\ li.a[1].href[1] # ""

AcceptableLis == IF ul = Nothing THEN <<>> ELSE SelectSeq(ul[1], Acceptable)

Min(a, b) == IF a < b THEN a ELSE b

\* C3: the returned sequence is never longer than the limit, limit = 0
\* included.
C3_LengthAtMostLimit == p_pc = "returned" => Len(entries) <= limit

\* C4 as stated: the returned ranks are 1, 2, ..., length whatever ranks the
\* items carried.
C4_RanksAreOneToN ==
    p_pc = "returned" => \A i \in 1..Len(entries) : entries[i].rank = Some(i)

\* C4 amended: the returned ranks are the numbers the accepted items carried,
\* in extraction order; the repair pass leaves them as they are.
C4_RanksAreItemRanks ==
    p_pc = "returned" =>
        /\ Len(entries) <= Len(AcceptableLis)
        /\ \A i \in 1..Len(entries) :
            entries[i].rank = Some(ToInt(NormText(AcceptableLis[i].no_div[1])))

\* Two entries returned with the ranks 7 and 3, in that order.
C4_Witness ==
    /\ p_pc = "returned"
    /\ Len(entries) = 2
    /\ entries[1].rank = Some(7)
    /\ entries[2].rank = Some(3)

\* C5: for a present container and limit >= 1 the call returns exactly the
\* first min(limit, k) acceptable items in document order, an unacceptable
\* item being neither included nor an error; an absent container gives the
\* empty sequence.
C5_FirstAcceptableItems ==
    /\ (p_pc # "idle" /\ ul = Nothing) => (p_pc = "returned" /\ entries = <<>>)
    /\ (p_pc # "idle" /\ ul # Nothing /\ limit >= 1) =>
        /\ p_pc = "returned"
        /\ Len(entries) = Min(limit, Len(AcceptableLis))
        /\ \A i \in 1..Len(entries) :
            /\ entries[i].title = NormText(AcceptableLis[i].a[1].text)
            /\ entries[i].url = AcceptableLis[i].a[1].href[1]
            /\ entries[i].rank = Some(ToInt(NormText(AcceptableLis[i].no_div[1])))

(***************************************************************************)
(* Claims about find_weekly_section                                        *)
(***************************************************************************)
\* The first heading, in document order, whose text contains the keyword.
FirstHeading == MinOf(H2Candidates(doc))

HeadingParent == doc.parent[FirstHeading]

\* The marker-class containers that are direct children of the heading's parent.
DirectContentChildren ==
    {j \in NodesOf(doc) : doc.parent[j] = HeadingParent /\ doc.kind[j] = "ulc"}

\* The marker-class containers anywhere below the heading's parent.
ContentInParent ==
    {j \in NodesOf(doc) :
        /\ doc.kind[j] = "ulc"
        /\ IsAncestorOrSelf(doc.parent, HeadingParent, doc.parent[j])}

C9_Case ==
    /\ l_pc = "returned"
    /\ H2Candidates(doc) # {}
    /\ DirectContentChildren # {}

\* C9 as stated: when the heading's parent has a marker-class container as a
\* direct child, that container is returned, whatever other containers the
\* document holds.
C9_ReturnsDirectChild ==
    C9_Case => (section # Nothing /\ section[1] \in DirectContentChildren)

\* C9 amended: in that case the container returned is the first marker-class
\* container, in document order, below the heading's parent; it is the direct
\* child unless a marker-class container nested deeper in the parent comes
\* before it, and containers outside the parent or with id listCont2 never
\* change it.
C9_ReturnsFirstInParent ==
    C9_Case =>
        /\ section = Some(MinOf(ContentInParent))
        /\ (\A j \in ContentInParent : j < MinOf(DirectContentChildren) => j \in DirectContentChildren)
            => section = Some(MinOf(DirectContentChildren))

\* The direct child is returned although an id=listCont2 container and a
\* marker-class container come earlier in the document, outside the parent.
C9_Witness ==
    /\ C9_Case
    /\ Len(doc.kind) = 4
    /\ doc.kind[1] = "ulc"
    /\ doc.kind[2] = "div"
    /\ doc.parent = <<0, 0, 2, 2>>
    /\ doc.kind[3] = "h2kw"
    /\ section = Some(4)

(***************************************************************************)
(* Claims about cdx_snapshots                                              *)
(***************************************************************************)
\* The candidate records of the response, as its format gives them.
Candidates ==
    IF response.json
    THEN IF Len(response.table) < 2 THEN <<>>
         ELSE [i \in 1..(Len(response.table) - 1) |->
                  ZipDict(response.table[1], response.table[i + 1])]
    ELSE LET lines == SelectSeq(response.table, LAMBDA ln : ln # <<>>)
         IN  IF lines = <<>> THEN <<>>
             ELSE [i \in 1..(Len(lines) - 1) |-> TextDict(lines[1], lines[i + 1])]

\* The number of candidates whose timestamp is greater than t.
NumGreater(t) == Cardinality({i \in 1..Len(Candidates) : StrLess(t, SortKey(Candidates[i]))})

\* C8: whichever format the response has, the records returned are in
\* descending order of timestamp and are the first `limit` records of that
\* order.
C8_SortedDescTruncated ==
    c_pc = "returned" =>
        /\ Len(snaps) = Min(c_limit, Len(Candidates))
        /\ \A i \in 1..(Len(snaps) - 1) : ~StrLess(SortKey(snaps[i]), SortKey(snaps[i + 1]))
        /\ \A i \in 1..Len(snaps) : NumGreater(SortKey(snaps[i])) < i

(***************************************************************************)
(* Claims about run                                                        *)
(***************************************************************************)
\* The snapshot records with a non-empty timestamp, in the order returned.
StampedSnaps == SelectSeq(r_snaps, LAMBDA snap : ~NotTs(SnapTs(snap)))

\* C6: for recent > 0, recent_archives holds one element per returned record
\* with a non-empty timestamp, in the order returned; the element is a
\* failure marker iff that snapshot's fetch failed, so a failure neither
\* removes, reorders nor stops later snapshots; records without a timestamp
\* contribute nothing.
C6_OneEntryPerStampedSnapshot ==
    (r_pc = "done" /\ recent > 0) =>
        /\ Len(out.recent_archives) = Len(StampedSnaps)
        /\ Len(r_fetches) = Len(StampedSnaps)
        /\ \A j \in 1..Len(StampedSnaps) :
            /\ out.recent_archives[j].ts = StampedSnaps[j]["timestamp"]
            /\ r_fetches[j].ts = StampedSnaps[j]["timestamp"]
            /\ out.recent_archives[j].kind = (IF r_fetches[j].ok THEN "result" ELSE "error")

\* recent = 3, three stamped snapshots, the second fetch fails and the
\* third succeeds.
C6_Witness ==
    /\ r_pc = "done"
    /\ recent = 3
    /\ Len(StampedSnaps) = 3
    /\ Len(out.recent_archives) = 3
    /\ out.recent_archives[1].kind = "result"
    /\ out.recent_archives[2].kind = "error"
    /\ out.recent_archives[3].kind = "result"

\* C7: run never aborts and its report always has a current result or
\* failure marker; a failed index query adds exactly one note and leaves
\* recent_archives empty; with recent = 0 there is no index query and no
\* archived fetch, and recent_archives is empty.
C7_AlwaysReports ==
    /\ (r_pc \notin {"idle", "done"}) => ENABLED RunNext
    /\ r_pc = "done" =>
        /\ out.current.kind \in {"result", "error"}
        /\ r_index = <<"raised">> => (Len(out.notes) = 1 /\ out.recent_archives = <<>>)
        /\ r_index # <<"raised">> => out.notes = <<>>
        /\ recent = 0 => (r_index = <<>> /\ r_fetches = <<>> /\ out.recent_archives = <<>>)

\* The current fetch and the index query both failed, and run returned.
C7_Witness ==
    /\ r_pc = "done"
    /\ recent = 2
    /\ out.current.kind = "error"
    /\ r_index = <<"raised">>
    /\ Len(out.notes) = 1

====
